---- MODULE Spec2Model ----
(***************************************************************************)
(* Model of src/validate_nodes.py: the breaking-change detector that       *)
(* compares the NODE_CLASS_MAPPINGS of a base and a PR checkout.           *)
(*                                                                         *)
(* Python values are encoded so that any two of them can be compared:      *)
(*   None            -> <<"None">>                                         *)
(*   a str s         -> <<"str", s>>                                       *)
(*   a tuple t       -> <<"tuple", t>>                                     *)
(* A class is a record of its three attributes; every attribute is         *)
(* [has, val], has = FALSE meaning the class does not define it.  A dict   *)
(* is the sequence of its <<key, value>> items in insertion order.         *)
(* A call's outcome is [raised, changes]: raised = TRUE is an exception    *)
(* leaving the function (no list is returned).                             *)
(***************************************************************************)
EXTENDS Integers, Sequences, FiniteSets, TLC

VARIABLES
    base_class,     \* compare_*: argument base_class
    pr_class,       \* compare_*: argument pr_class
    called,         \* which function of the module the harness has called
    result,         \* outcome of that call
    base_nodes,     \* compare_nodes: argument base_nodes
    pr_nodes,       \* compare_nodes: argument pr_nodes
    breaking_changes, \* outcome of compare_nodes
    argc,           \* main: len(sys.argv)
    base_repo,      \* main: the checkout at sys.argv[1]
    pr_repo,        \* main: the checkout at sys.argv[2]
    pc,             \* main: position
    exit_status     \* main: status the process ends with

vars == <<base_class, pr_class, called, result, base_nodes, pr_nodes,
          breaking_changes, argc, base_repo, pr_repo, pc, exit_status>>

(***************************************************************************)
(* Bounds of the explored inputs.                                          *)
(***************************************************************************)
MaxRet == 3

MaxArgc == 4

Types == {"STRING", "INT", "FLOAT", "BOOL"}

InputTypeTags == {"INT", "STRING"}

InputNames == {"a", "b"}

FunctionNames == {"process", "different_process"}

NodeNames == {"A", "B"}

(***************************************************************************)
(* Python values.                                                          *)
(***************************************************************************)
None == <<"None">>

Str(s) == <<"str", s>>

Tup(t) == <<"tuple", t>>

NoAttr == [has |-> FALSE, val |-> None]

Attr(v) == [has |-> TRUE, val |-> v]

getattr(class, name, default) ==
    IF class[name].has THEN class[name].val ELSE default

\* dict operations on a sequence of <<key, value>> items
Keys(d) == {d[i][1] : i \in 1..Len(d)}

Get(d, k) == d[CHOOSE i \in 1..Len(d) : d[i][1] = k][2]

\* dict.get("required", {}) on the dict INPUT_TYPES() returns
GetRequired(input_types) ==
    IF input_types.required.has THEN input_types.required.val ELSE <<>>

(***************************************************************************)
(* BreakingChangeType and BreakingChange.                                  *)
(***************************************************************************)
RETURN_TYPES_CHANGED == "Return types changed"

INPUT_REMOVED == "Required input removed"

INPUT_TYPE_CHANGED == "Input type changed"

NODE_REMOVED == "Node removed"

FUNCTION_CHANGED == "Entry point function changed"

BreakingChangeType ==
    {RETURN_TYPES_CHANGED, INPUT_REMOVED, INPUT_TYPE_CHANGED, NODE_REMOVED,
     FUNCTION_CHANGED}

BreakingChange(node_name, change_type, details, base_value, pr_value) ==
    [node_name |-> node_name, change_type |-> change_type, details |-> details,
     base_value |-> base_value, pr_value |-> pr_value]

Returned(changes) == [raised |-> FALSE, changes |-> changes]

Raised == [raised |-> TRUE, changes |-> <<>>]

NotCalled == [raised |-> FALSE, changes |-> <<>>]

(***************************************************************************)
(* compare_return_types                                                    *)
(***************************************************************************)
RECURSIVE ReturnTypesLoop(_, _, _, _)
ReturnTypesLoop(node_name, base_types, pr_types, i) ==
    IF i > Len(base_types) THEN <<>>
    ELSE IF i > Len(pr_types) \/ pr_types[i] # base_types[i]
         THEN <<BreakingChange(node_name, RETURN_TYPES_CHANGED,
                    <<"Return types changed or removed. This is a breaking change.">>,
                    Tup(base_types), Tup(pr_types))>>
         ELSE ReturnTypesLoop(node_name, base_types, pr_types, i + 1)

\* variant: any change of arity is flagged, an appended type included
compare_return_types_arity(node_name, bc, prc) ==
    LET base_types == getattr(bc, "RETURN_TYPES", <<>>)
        pr_types == getattr(prc, "RETURN_TYPES", <<>>)
    IN  IF Len(base_types) # Len(pr_types)
        THEN Returned(<<BreakingChange(node_name, RETURN_TYPES_CHANGED,
                          <<"Return types changed or removed. This is a breaking change.">>,
                          Tup(base_types), Tup(pr_types))>>)
        ELSE Returned(ReturnTypesLoop(node_name, base_types, pr_types, 1))

\* variant: a permutation of the base types is reported under a kind of its own
compare_return_types_reordered(node_name, bc, prc) ==
    LET base_types == getattr(bc, "RETURN_TYPES", <<>>)
        pr_types == getattr(prc, "RETURN_TYPES", <<>>)
        found == ReturnTypesLoop(node_name, base_types, pr_types, 1)
        permuted ==
            /\ Len(base_types) = Len(pr_types)
            /\ \A t \in Types :
                  Cardinality({i \in 1..Len(base_types) : base_types[i] = t})
                      = Cardinality({i \in 1..Len(pr_types) : pr_types[i] = t})
    IN  IF found # <<>> /\ permuted
        THEN Returned(<<[found[1] EXCEPT !.change_type = "Return types reordered"]>>)
        ELSE Returned(found)

\* variant: a base type only has to occur somewhere in the PR's tuple
compare_return_types_anywhere(node_name, bc, prc) ==
    LET base_types == getattr(bc, "RETURN_TYPES", <<>>)
        pr_types == getattr(prc, "RETURN_TYPES", <<>>)
    IN  IF \E i \in 1..Len(base_types) :
              \A j \in 1..Len(pr_types) : pr_types[j] # base_types[i]
        THEN Returned(<<BreakingChange(node_name, RETURN_TYPES_CHANGED,
                          <<"Return types changed or removed. This is a breaking change.">>,
                          Tup(base_types), Tup(pr_types))>>)
        ELSE Returned(<<>>)

compare_return_types(node_name, bc, prc) ==
    LET base_types == getattr(bc, "RETURN_TYPES", <<>>)
        pr_types == getattr(prc, "RETURN_TYPES", <<>>)
    IN  Returned(ReturnTypesLoop(node_name, base_types, pr_types, 1))

(***************************************************************************)
(* compare_input_types                                                     *)
(***************************************************************************)
RECURSIVE InputTypesLoop(_, _, _, _)
InputTypesLoop(node_name, base_inputs, pr_inputs, i) ==
    IF i > Len(base_inputs) THEN <<>>
    ELSE LET input_name == base_inputs[i][1]
             input_config == base_inputs[i][2]
             rest == InputTypesLoop(node_name, base_inputs, pr_inputs, i + 1)
         IN  IF input_name \notin Keys(pr_inputs)
             THEN <<BreakingChange(node_name, INPUT_REMOVED,
                        <<"Required input '", input_name, "' was removed">>,
                        Tup(input_config), None)>> \o rest
             ELSE IF Get(pr_inputs, input_name)[1] # input_config[1]
             THEN <<BreakingChange(node_name, INPUT_TYPE_CHANGED,
                        <<"Input type changed for '", input_name, "'">>,
                        Str(input_config[1]),
                        Str(Get(pr_inputs, input_name)[1]))>> \o rest
             ELSE rest

\* variant: the whole input specification is compared, not its type tag
compare_input_types_config(node_name, bc, prc) ==
    IF ~bc.INPUT_TYPES.has \/ ~prc.INPUT_TYPES.has
    THEN Raised
    ELSE LET base_inputs == GetRequired(bc.INPUT_TYPES.val)
             pr_inputs == GetRequired(prc.INPUT_TYPES.val)
             changed == {i \in 1..Len(base_inputs) :
                            /\ base_inputs[i][1] \in Keys(pr_inputs)
                            /\ Get(pr_inputs, base_inputs[i][1]) # base_inputs[i][2]}
             F[i \in 0..Len(base_inputs)] ==
                IF i = 0 THEN <<>>
                ELSE LET input_name == base_inputs[i][1]
                         input_config == base_inputs[i][2]
                     IN  IF input_name \notin Keys(pr_inputs)
                         THEN Append(F[i - 1], BreakingChange(node_name, INPUT_REMOVED,
                                  <<"Required input '", input_name, "' was removed">>,
                                  Tup(input_config), None))
                         ELSE IF i \in changed
                         THEN Append(F[i - 1], BreakingChange(node_name, INPUT_TYPE_CHANGED,
                                  <<"Input type changed for '", input_name, "'">>,
                                  Str(input_config[1]),
                                  Str(Get(pr_inputs, input_name)[1])))
                         ELSE F[i - 1]
         IN  Returned(F[Len(base_inputs)])

compare_input_types(node_name, bc, prc) ==
    IF ~bc.INPUT_TYPES.has \/ ~prc.INPUT_TYPES.has
    THEN Raised     \* AttributeError: the class has no attribute INPUT_TYPES
    ELSE Returned(InputTypesLoop(node_name, GetRequired(bc.INPUT_TYPES.val),
                                 GetRequired(prc.INPUT_TYPES.val), 1))

(***************************************************************************)
(* compare_function                                                        *)
(***************************************************************************)
\* variant: a base class without FUNCTION is never flagged
compare_function_truthy(node_name, bc, prc) ==
    LET base_function == getattr(bc, "FUNCTION", None)
        pr_function == getattr(prc, "FUNCTION", None)
    IN  IF base_function # None /\ base_function # pr_function
        THEN Returned(<<BreakingChange(node_name, FUNCTION_CHANGED,
                          <<"Entry point function changed">>,
                          base_function, pr_function)>>)
        ELSE Returned(<<>>)

\* variant: a PR class without FUNCTION is always flagged
compare_function_missing(node_name, bc, prc) ==
    LET base_function == getattr(bc, "FUNCTION", None)
        pr_function == getattr(prc, "FUNCTION", None)
    IN  IF pr_function = None \/ base_function # pr_function
        THEN Returned(<<BreakingChange(node_name, FUNCTION_CHANGED,
                          <<"Entry point function changed">>,
                          base_function, pr_function)>>)
        ELSE Returned(<<>>)

compare_function(node_name, bc, prc) ==
    LET base_function == getattr(bc, "FUNCTION", None)
        pr_function == getattr(prc, "FUNCTION", None)
    IN  IF base_function # pr_function
        THEN Returned(<<BreakingChange(node_name, FUNCTION_CHANGED,
                          <<"Entry point function changed">>,
                          base_function, pr_function)>>)
        ELSE Returned(<<>>)

(***************************************************************************)
(* compare_nodes                                                           *)
(***************************************************************************)
Has(nodes, node_name) == node_name \in Keys(nodes)

\* list.extend with the outcome of a callee; an exception propagates
Extend(acc, outcome) ==
    IF acc.raised \/ outcome.raised THEN Raised
    ELSE Returned(acc.changes \o outcome.changes)

RECURSIVE NodesLoop(_, _, _, _)
NodesLoop(bn, pn, i, acc) ==
    IF acc.raised \/ i > Len(bn) THEN acc
    ELSE LET node_name == bn[i][1]
         IN  IF ~Has(pn, node_name)
             THEN NodesLoop(bn, pn, i + 1,
                      Extend(acc, Returned(<<BreakingChange(node_name,
                          NODE_REMOVED, <<"Node was removed">>, None, None)>>)))
             ELSE LET bc == bn[i][2]
                      prc == Get(pn, node_name)
                      a1 == Extend(acc, compare_return_types(node_name, bc, prc))
                      a2 == Extend(a1, compare_input_types(node_name, bc, prc))
                      a3 == Extend(a2, compare_function(node_name, bc, prc))
                  IN  NodesLoop(bn, pn, i + 1, a3)

\* variant: the checks go on after NODE_REMOVED, against a class without
\* attributes of its own but an empty INPUT_TYPES
RECURSIVE NodesLoopNoContinue(_, _, _, _)
NodesLoopNoContinue(bn, pn, i, acc) ==
    IF acc.raised \/ i > Len(bn) THEN acc
    ELSE LET node_name == bn[i][1]
             removed == IF Has(pn, node_name) THEN <<>>
                        ELSE <<BreakingChange(node_name, NODE_REMOVED,
                                   <<"Node was removed">>, None, None)>>
             bc == bn[i][2]
             prc == IF Has(pn, node_name) THEN Get(pn, node_name)
                    ELSE [RETURN_TYPES |-> NoAttr,
                          INPUT_TYPES |-> Attr([required |-> NoAttr]),
                          FUNCTION |-> NoAttr]
             a0 == Extend(acc, Returned(removed))
             a1 == Extend(a0, compare_return_types(node_name, bc, prc))
             a2 == Extend(a1, compare_input_types(node_name, bc, prc))
             a3 == Extend(a2, compare_function(node_name, bc, prc))
         IN  NodesLoopNoContinue(bn, pn, i + 1, a3)

compare_nodes_no_continue(bn, pn) ==
    NodesLoopNoContinue(bn, pn, 1, Returned(<<>>))

\* variant: a node of the PR that the base lacks is reported as well
RECURSIVE AddedNodes(_, _, _)
AddedNodes(bn, pn, i) ==
    IF i > Len(pn) THEN <<>>
    ELSE IF Has(bn, pn[i][1]) THEN AddedNodes(bn, pn, i + 1)
    ELSE <<BreakingChange(pn[i][1], NODE_REMOVED, <<"Node was added">>,
                          None, None)>> \o AddedNodes(bn, pn, i + 1)

compare_nodes_both_ways(bn, pn) ==
    Extend(NodesLoop(bn, pn, 1, Returned(<<>>)), Returned(AddedNodes(bn, pn, 1)))

compare_nodes(bn, pn) == NodesLoop(bn, pn, 1, Returned(<<>>))

(***************************************************************************)
(* load_node_mappings.  A checkout is [init_exists, loads, mappings]:      *)
(* whether <repo>/__init__.py exists, whether importing it succeeds, and   *)
(* the NODE_CLASS_MAPPINGS attribute of the imported module.               *)
(***************************************************************************)
Loaded(mappings) == [raised |-> FALSE, error |-> "", value |-> mappings]

LoadError(e) == [raised |-> TRUE, error |-> e, value |-> <<>>]

load_node_mappings(repo) ==
    IF ~repo.init_exists THEN LoadError("FileNotFoundError")
    ELSE IF ~repo.loads THEN LoadError("ImportError")
    ELSE LET mappings == getattr(repo, "mappings", <<>>)
         IN  IF mappings = <<>>        \* `not mappings`: a falsy (empty) dict
             THEN LoadError("AttributeError")
             ELSE Loaded(mappings)

(***************************************************************************)
(* The values the inputs are drawn from.                                   *)
(***************************************************************************)
\* tuples of at most n type tags
TypeTuples(n) == UNION {[1..k -> Types] : k \in 0..n}

\* the RETURN_TYPES attribute: undefined, or a tuple (duplicates allowed)
ReturnTypeAttrs == {NoAttr} \cup {Attr(t) : t \in TypeTuples(MaxRet)}

\* an input specification: (type,) or (type, options)
InputConfigs ==
    {<<t>> : t \in InputTypeTags} \cup {<<t, "options">> : t \in InputTypeTags}

\* dicts with distinct keys from names, in every insertion order
Dicts(names, values) ==
    {d \in UNION {[1..k -> names \X values] : k \in 0..Cardinality(names)} :
        \A i, j \in 1..Len(d) : i # j => d[i][1] # d[j][1]}

\* the INPUT_TYPES attribute: undefined, or a classmethod returning a dict
\* with or without the key "required"
InputTypeAttrs ==
    {NoAttr} \cup {Attr([required |-> NoAttr])}
             \cup {Attr([required |-> Attr(d)]) : d \in Dicts(InputNames, InputConfigs)}

\* the FUNCTION attribute: undefined, or a name
FunctionAttrs == {NoAttr} \cup {Attr(Str(f)) : f \in FunctionNames}

Class(rt, it, fn) == [RETURN_TYPES |-> rt, INPUT_TYPES |-> it, FUNCTION |-> fn]

NoClass == Class(NoAttr, NoAttr, NoAttr)

\* classes that define at most RETURN_TYPES (the classes of the unit tests)
ReturnTypeClasses == {Class(rt, NoAttr, NoAttr) : rt \in ReturnTypeAttrs}

\* classes that define at most INPUT_TYPES and FUNCTION
InterfaceClasses ==
    {Class(NoAttr, it, fn) : it \in InputTypeAttrs, fn \in FunctionAttrs}

\* node classes of the registries compare_nodes is explored on
NodeClasses ==
    {Class(rt, it, fn) :
        rt \in {NoAttr, Attr(<<"INT", "INT">>)},
        it \in {NoAttr, Attr([required |-> Attr(<<>>)]),
                Attr([required |-> Attr(<<<<"a", <<"INT">>>>>>)]),
                Attr([required |-> Attr(<<<<"a", <<"STRING">>>>>>)])},
        fn \in {NoAttr, Attr(Str("process"))}}

\* registries: dicts from node names to classes, in every insertion order
Registries(classes) == Dicts(NodeNames, classes)

\* one insertion order per key set (for an argument that is only looked up)
InKeyOrder(d) ==
    \A i, j \in 1..Len(d) : i < j => (d[i][1] = "A" /\ d[j][1] = "B")

(***************************************************************************)
(* Values of the variables an exploration does not use.                    *)
(***************************************************************************)
NoRepo == [init_exists |-> FALSE, loads |-> FALSE, mappings |-> NoAttr]

IdlePair ==
    /\ base_class = NoClass
    /\ pr_class = NoClass
    /\ result = NotCalled

IdleNodes ==
    /\ base_nodes = <<>>
    /\ pr_nodes = <<>>
    /\ breaking_changes = NotCalled

IdleMain ==
    /\ argc = 0
    /\ base_repo = NoRepo
    /\ pr_repo = NoRepo
    /\ pc = "idle"
    /\ exit_status = -1

pairVars == <<base_class, pr_class, result>>

nodesVars == <<base_nodes, pr_nodes, breaking_changes>>

mainVars == <<argc, base_repo, pr_repo, pc, exit_status>>

(***************************************************************************)
(* compare_return_types called on two classes, as the unit tests call it.  *)
(***************************************************************************)
InitReturnTypes ==
    /\ base_class \in ReturnTypeClasses
    /\ pr_class \in ReturnTypeClasses
    /\ called = "none"
    /\ result = NotCalled
    /\ IdleNodes
    /\ IdleMain

CallCompareReturnTypes ==
    /\ called = "none"
    /\ called' = "compare_return_types"
    /\ result' = compare_return_types("TestNode", base_class, pr_class)
    /\ UNCHANGED <<base_class, pr_class, nodesVars, mainVars>>

NextReturnTypes == CallCompareReturnTypes

SpecReturnTypes == InitReturnTypes /\ [][NextReturnTypes]_vars

(***************************************************************************)
(* compare_input_types and compare_function called on two classes.         *)
(***************************************************************************)
InitInterface ==
    /\ base_class \in InterfaceClasses
    /\ pr_class \in InterfaceClasses
    /\ called = "none"
    /\ result = NotCalled
    /\ IdleNodes
    /\ IdleMain

CallCompareInputTypes ==
    /\ called = "none"
    /\ called' = "compare_input_types"
    /\ result' = compare_input_types("TestNode", base_class, pr_class)
    /\ UNCHANGED <<base_class, pr_class, nodesVars, mainVars>>

CallCompareFunction ==
    /\ called = "none"
    /\ called' = "compare_function"
    /\ result' = compare_function("TestNode", base_class, pr_class)
    /\ UNCHANGED <<base_class, pr_class, nodesVars, mainVars>>

NextInterface == CallCompareInputTypes \/ CallCompareFunction

SpecInterface == InitInterface /\ [][NextInterface]_vars

(***************************************************************************)
(* compare_nodes called on two registries.                                 *)
(***************************************************************************)
Init ==
    /\ base_nodes \in Registries(NodeClasses)
    /\ pr_nodes \in {d \in Registries(NodeClasses) : InKeyOrder(d)}
    /\ called = "none"
    /\ breaking_changes = NotCalled
    /\ IdlePair
    /\ IdleMain

CallCompareNodes ==
    /\ called = "none"
    /\ called' = "compare_nodes"
    /\ breaking_changes' = compare_nodes(base_nodes, pr_nodes)
    /\ UNCHANGED <<base_nodes, pr_nodes, pairVars, mainVars>>

Next == CallCompareNodes

Spec == Init /\ [][Next]_vars

(***************************************************************************)
(* main: the script run on two checkouts.                                  *)
(***************************************************************************)
\* node classes of the checkouts main is explored on
MainClasses ==
    {Class(Attr(<<"INT">>), Attr([required |-> Attr(<<>>)]), Attr(Str("process"))),
     Class(Attr(<<"INT">>), Attr([required |-> Attr(<<>>)]), NoAttr),
     NoClass}

\* a checkout without __init__.py, one whose __init__.py fails to import,
\* one whose module has no NODE_CLASS_MAPPINGS, and ones that declare a
\* (possibly empty) NODE_CLASS_MAPPINGS
Repos ==
    {NoRepo, [init_exists |-> TRUE, loads |-> FALSE, mappings |-> NoAttr],
             [init_exists |-> TRUE, loads |-> TRUE, mappings |-> NoAttr]}
        \cup {[init_exists |-> TRUE, loads |-> TRUE, mappings |-> Attr(r)] :
                 r \in Registries(MainClasses)}

InitMain ==
    /\ argc \in 1..MaxArgc
    /\ base_repo \in Repos
    /\ pr_repo \in Repos
    /\ pc = "start"
    /\ exit_status = -1
    /\ base_nodes = <<>>
    /\ pr_nodes = <<>>
    /\ breaking_changes = NotCalled
    /\ called = "none"
    /\ IdlePair

\* len(sys.argv) != 3: usage message, sys.exit(1)
CheckArgs ==
    /\ pc = "start"
    /\ IF argc # 3
       THEN pc' = "exit" /\ exit_status' = 1
       ELSE pc' = "load_base" /\ UNCHANGED exit_status
    /\ UNCHANGED <<argc, base_repo, pr_repo, called, pairVars, nodesVars>>

\* base_nodes = load_node_mappings(base_path), inside the try
LoadBase ==
    /\ pc = "load_base"
    /\ LET loaded == load_node_mappings(base_repo)
       IN  IF loaded.raised
           THEN pc' = "exit" /\ exit_status' = 1 /\ UNCHANGED base_nodes
           ELSE pc' = "load_pr" /\ base_nodes' = loaded.value
                    /\ UNCHANGED exit_status
    /\ UNCHANGED <<argc, base_repo, pr_repo, called, pairVars, pr_nodes,
                   breaking_changes>>

\* pr_nodes = load_node_mappings(pr_path), inside the try
LoadPr ==
    /\ pc = "load_pr"
    /\ LET loaded == load_node_mappings(pr_repo)
       IN  IF loaded.raised
           THEN pc' = "exit" /\ exit_status' = 1 /\ UNCHANGED pr_nodes
           ELSE pc' = "compare" /\ pr_nodes' = loaded.value
                    /\ UNCHANGED exit_status
    /\ UNCHANGED <<argc, base_repo, pr_repo, called, pairVars, base_nodes,
                   breaking_changes>>

\* breaking_changes = compare_nodes(base_nodes, pr_nodes); an exception is
\* not caught and ends the process with status 1
Compare ==
    /\ pc = "compare"
    /\ breaking_changes' = compare_nodes(base_nodes, pr_nodes)
    /\ IF breaking_changes'.raised
       THEN pc' = "exit" /\ exit_status' = 1
       ELSE pc' = "report" /\ UNCHANGED exit_status
    /\ UNCHANGED <<argc, base_repo, pr_repo, called, pairVars, base_nodes,
                   pr_nodes>>

\* print the report; sys.exit(1) if breaking_changes, else fall off the end
Report ==
    /\ pc = "report"
    /\ pc' = "exit"
    /\ exit_status' = IF breaking_changes.changes # <<>> THEN 1 ELSE 0
    /\ UNCHANGED <<argc, base_repo, pr_repo, called, pairVars, nodesVars>>

NextMain == CheckArgs \/ LoadBase \/ LoadPr \/ Compare \/ Report

SpecMain == InitMain /\ [][NextMain]_vars

(***************************************************************************)
(* Properties of compare_return_types (checked under SpecReturnTypes).     *)
(***************************************************************************)
BaseTypes == getattr(base_class, "RETURN_TYPES", <<>>)

PrTypes == getattr(pr_class, "RETURN_TYPES", <<>>)

IsPrefix(s, t) == Len(s) <= Len(t) /\ SubSeq(t, 1, Len(s)) = s

Occurrences(s, x) == Cardinality({i \in 1..Len(s) : s[i] = x})

SameMultiset(s, t) == \A x \in Types : Occurrences(s, x) = Occurrences(t, x)

RETURN_TYPES_REORDERED == "Return types reordered"

ReturnTypesCalled == called = "compare_return_types"

\* the call returned exactly one change, of the given kind
OneChange(outcome, kind) ==
    /\ ~outcome.raised
    /\ Len(outcome.changes) = 1
    /\ outcome.changes[1].change_type = kind

NoChange(outcome) == ~outcome.raised /\ outcome.changes = <<>>

\* C1 as stated: whenever the PR's return-type tuple has another length than
\* the base's (shorter, longer, or only appended to), exactly one
\* RETURN_TYPES_CHANGED is emitted and no other return-type change.
C1_AnyArityChangeFlagged ==
    (ReturnTypesCalled /\ Len(BaseTypes) # Len(PrTypes))
        => OneChange(result, RETURN_TYPES_CHANGED)

\* C1 amended: when the lengths differ, at most one change is emitted and it
\* is a RETURN_TYPES_CHANGED; it is emitted when the PR's tuple is shorter, or
\* longer without keeping the base tuple as its positional prefix; a PR tuple
\* that only appends types after the unchanged base tuple emits nothing.
C1_ArityChange ==
    (ReturnTypesCalled /\ Len(BaseTypes) # Len(PrTypes))
        => /\ Len(PrTypes) < Len(BaseTypes)
                => OneChange(result, RETURN_TYPES_CHANGED)
           /\ (Len(PrTypes) > Len(BaseTypes) /\ ~IsPrefix(BaseTypes, PrTypes))
                => OneChange(result, RETURN_TYPES_CHANGED)
           /\ (Len(PrTypes) > Len(BaseTypes) /\ IsPrefix(BaseTypes, PrTypes))
                => NoChange(result)

\* C1 witness: a PR tuple that only appends a type to a non-empty base tuple
\* has been compared and nothing was emitted.
C1_Witness ==
    /\ ReturnTypesCalled
    /\ Len(BaseTypes) > 0
    /\ Len(PrTypes) > Len(BaseTypes)
    /\ IsPrefix(BaseTypes, PrTypes)
    /\ NoChange(result)

\* C2 as stated: for tuples of equal length, different multisets of tags give
\* RETURN_TYPES_CHANGED, equal multisets in another order give
\* RETURN_TYPES_REORDERED, identical tuples give nothing.
C2_ReorderedIsItsOwnKind ==
    (ReturnTypesCalled /\ Len(BaseTypes) = Len(PrTypes))
        => /\ ~SameMultiset(BaseTypes, PrTypes)
                => OneChange(result, RETURN_TYPES_CHANGED)
           /\ (SameMultiset(BaseTypes, PrTypes) /\ BaseTypes # PrTypes)
                => OneChange(result, RETURN_TYPES_REORDERED)
           /\ BaseTypes = PrTypes => NoChange(result)

\* C2 amended: for tuples of equal length, exactly one RETURN_TYPES_CHANGED is
\* emitted whenever the tuples differ, whether the multisets of tags differ or
\* only the order does (there is no RETURN_TYPES_REORDERED kind); identical
\* tuples emit nothing.
C2_EqualLength ==
    (ReturnTypesCalled /\ Len(BaseTypes) = Len(PrTypes))
        => /\ BaseTypes # PrTypes => OneChange(result, RETURN_TYPES_CHANGED)
           /\ BaseTypes = PrTypes => NoChange(result)
           /\ \A i \in 1..Len(result.changes) :
                 result.changes[i].change_type \in BreakingChangeType

\* C2 witness: a permutation of the base tuple has been compared and was
\* reported as RETURN_TYPES_CHANGED.
C2_Witness ==
    /\ ReturnTypesCalled
    /\ Len(BaseTypes) = Len(PrTypes)
    /\ SameMultiset(BaseTypes, PrTypes)
    /\ BaseTypes # PrTypes
    /\ OneChange(result, RETURN_TYPES_CHANGED)

\* C3: compare_return_types returns the empty list exactly when the base
\* tuple is a positional prefix of the PR tuple; otherwise it returns exactly
\* one change, a RETURN_TYPES_CHANGED whose base_value and pr_value are the
\* two complete tuples (a missing RETURN_TYPES being the empty tuple).
C3_PrefixRule ==
    ReturnTypesCalled
        => /\ ~result.raised
           /\ (result.changes = <<>>) <=> IsPrefix(BaseTypes, PrTypes)
           /\ ~IsPrefix(BaseTypes, PrTypes)
                => /\ OneChange(result, RETURN_TYPES_CHANGED)
                   /\ result.changes[1].node_name = "TestNode"
                   /\ result.changes[1].base_value = Tup(BaseTypes)
                   /\ result.changes[1].pr_value = Tup(PrTypes)

\* C3 witness: the PR class defines no RETURN_TYPES, the base tuple is not
\* empty, and one change holding the empty tuple as pr_value was returned.
C3_Witness ==
    /\ ReturnTypesCalled
    /\ ~pr_class.RETURN_TYPES.has
    /\ Len(BaseTypes) > 0
    /\ Len(result.changes) = 1
    /\ result.changes[1].pr_value = Tup(<<>>)

(***************************************************************************)
(* Properties of compare_input_types and compare_function (checked under   *)
(* SpecInterface).                                                         *)
(***************************************************************************)
DeclaresInputs(class) == class.INPUT_TYPES.has

BaseInputs == GetRequired(base_class.INPUT_TYPES.val)

PrInputs == GetRequired(pr_class.INPUT_TYPES.val)

\* the input an INPUT_REMOVED or INPUT_TYPE_CHANGED change is about
InputOf(change) == change.details[2]

\* positions of the changes about one input
ChangesAbout(changes, input_name) ==
    {i \in 1..Len(changes) : InputOf(changes[i]) = input_name}

Position(d, k) == CHOOSE i \in 1..Len(d) : d[i][1] = k

\* C6: for every input required by the base: absent from the PR's required
\* inputs, exactly one INPUT_REMOVED (base_value the base specification,
\* pr_value None) and no INPUT_TYPE_CHANGED; present with another type tag,
\* exactly one INPUT_TYPE_CHANGED holding the two tags; present with the same
\* tag, nothing.  The changes follow the order of the base's required inputs.
C6_InputChanges ==
    (/\ called = "compare_input_types"
     /\ DeclaresInputs(base_class) /\ DeclaresInputs(pr_class))
        => /\ ~result.raised
           /\ \A i \in 1..Len(result.changes) :
                 /\ result.changes[i].change_type \in {INPUT_REMOVED, INPUT_TYPE_CHANGED}
                 /\ InputOf(result.changes[i]) \in Keys(BaseInputs)
                 /\ result.changes[i].node_name = "TestNode"
           /\ \A k \in Keys(BaseInputs) :
                 LET about == ChangesAbout(result.changes, k)
                     config == Get(BaseInputs, k)
                 IN  IF k \notin Keys(PrInputs)
                     THEN /\ Cardinality(about) = 1
                          /\ \A i \in about :
                                /\ result.changes[i].change_type = INPUT_REMOVED
                                /\ result.changes[i].base_value = Tup(config)
                                /\ result.changes[i].pr_value = None
                     ELSE IF Get(PrInputs, k)[1] # config[1]
                     THEN /\ Cardinality(about) = 1
                          /\ \A i \in about :
                                /\ result.changes[i].change_type = INPUT_TYPE_CHANGED
                                /\ result.changes[i].base_value = Str(config[1])
                                /\ result.changes[i].pr_value = Str(Get(PrInputs, k)[1])
                     ELSE about = {}
           /\ \A i, j \in 1..Len(result.changes) :
                 i < j => Position(BaseInputs, InputOf(result.changes[i]))
                              < Position(BaseInputs, InputOf(result.changes[j]))

\* C6 witness: the base requires two inputs, the PR dropped the first and
\* retyped the second, and the two changes were returned in that order.
C6_Witness ==
    /\ called = "compare_input_types"
    /\ DeclaresInputs(base_class) /\ DeclaresInputs(pr_class)
    /\ Len(BaseInputs) = 2
    /\ Len(result.changes) = 2
    /\ result.changes[1].change_type = INPUT_REMOVED
    /\ InputOf(result.changes[1]) = BaseInputs[1][1]
    /\ result.changes[2].change_type = INPUT_TYPE_CHANGED
    /\ InputOf(result.changes[2]) = BaseInputs[2][1]

BaseFunction == getattr(base_class, "FUNCTION", None)

PrFunction == getattr(pr_class, "FUNCTION", None)

NodesCalled == called = "compare_nodes"

Shared == Keys(base_nodes) \cap Keys(pr_nodes)

\* every node both registries hold has an INPUT_TYPES on both sides
SharedDeclareInputs ==
    \A n \in Shared : /\ DeclaresInputs(Get(base_nodes, n))
                      /\ DeclaresInputs(Get(pr_nodes, n))

ChangesOf(changes, node_name) ==
    {i \in 1..Len(changes) : changes[i].node_name = node_name}

\* C4: for every node of the base that the PR lacks, the result holds
\* exactly one change for it, a NODE_REMOVED, whatever the attributes of
\* the base class are.
C4_RemovalDominates ==
    (NodesCalled /\ SharedDeclareInputs)
        => /\ ~breaking_changes.raised
           /\ \A n \in Keys(base_nodes) \ Keys(pr_nodes) :
                 LET of == ChangesOf(breaking_changes.changes, n)
                 IN  /\ Cardinality(of) = 1
                     /\ \A i \in of :
                           breaking_changes.changes[i].change_type = NODE_REMOVED

\* C4 witness: the base's first node has return types, a required input and
\* an entry point and is missing from the PR; the second node is in both and
\* changed; the result starts with the one NODE_REMOVED.
C4_Witness ==
    /\ NodesCalled
    /\ Len(base_nodes) = 2
    /\ ~Has(pr_nodes, base_nodes[1][1])
    /\ base_nodes[1][2].RETURN_TYPES.has
    /\ base_nodes[1][2].FUNCTION.has
    /\ DeclaresInputs(base_nodes[1][2])
    /\ Len(GetRequired(base_nodes[1][2].INPUT_TYPES.val)) = 1
    /\ ~breaking_changes.raised
    /\ Len(breaking_changes.changes) = 4
    /\ breaking_changes.changes[1].change_type = NODE_REMOVED

\* the registry with one more node
WithNode(nodes, n, class) == Append(nodes, <<n, class>>)

\* the registry whose node n requires one more input
WithInput(nodes, n, input_name, config) ==
    [i \in 1..Len(nodes) |->
        IF nodes[i][1] # n THEN nodes[i]
        ELSE <<n, [nodes[i][2] EXCEPT !.INPUT_TYPES = Attr([required |-> Attr(
                     Append(GetRequired(nodes[i][2].INPUT_TYPES.val),
                            <<input_name, config>>))])]>>]

RequiredOf(nodes, n) == Keys(GetRequired(Get(nodes, n).INPUT_TYPES.val))

\* C5: no change is about a node only the PR has; no INPUT_REMOVED or
\* INPUT_TYPE_CHANGED is about a required input only the PR has; and adding
\* such a node or such a required input to the PR leaves the result as it is.
C5_AdditionsNotBreaking ==
    (NodesCalled /\ SharedDeclareInputs)
        => /\ ~breaking_changes.raised
           /\ \A i \in 1..Len(breaking_changes.changes) :
                 LET c == breaking_changes.changes[i]
                 IN  /\ c.node_name \in Keys(base_nodes)
                     /\ c.change_type \in {INPUT_REMOVED, INPUT_TYPE_CHANGED}
                           => InputOf(c) \in RequiredOf(base_nodes, c.node_name)
           /\ \A n \in NodeNames \ (Keys(base_nodes) \cup Keys(pr_nodes)) :
                 \A class \in NodeClasses :
                    compare_nodes(base_nodes, WithNode(pr_nodes, n, class))
                        = breaking_changes
           /\ \A n \in Shared :
                 \A k \in InputNames \ (RequiredOf(base_nodes, n)
                                            \cup RequiredOf(pr_nodes, n)) :
                    \A config \in InputConfigs :
                       compare_nodes(base_nodes, WithInput(pr_nodes, n, k, config))
                           = breaking_changes

\* C5 witness: the PR has a node the base lacks, and in the node both hold it
\* requires an input the base does not; that node's entry point changed, and
\* the result is that one FUNCTION_CHANGED.
C5_Witness ==
    /\ NodesCalled
    /\ Keys(pr_nodes) \ Keys(base_nodes) # {}
    /\ \E n \in Shared :
          /\ DeclaresInputs(Get(base_nodes, n)) /\ DeclaresInputs(Get(pr_nodes, n))
          /\ RequiredOf(pr_nodes, n) \ RequiredOf(base_nodes, n) # {}
    /\ OneChange(breaking_changes, FUNCTION_CHANGED)

SameRegistry(bn, pn) ==
    /\ Keys(bn) = Keys(pn)
    /\ \A n \in Keys(bn) : Get(bn, n) = Get(pn, n)

C9_Total == NodesCalled => ~breaking_changes.raised

(***************************************************************************)
(* Properties of main (checked under SpecMain).                            *)
(***************************************************************************)
DeclaresNoNodes(repo) ==
    repo.init_exists /\ repo.loads /\ repo.mappings = Attr(<<>>)

\* C10: a checkout whose __init__.py loads and declares zero nodes yields an
\* empty registry, not a failure; a run on two such checkouts reaches the
\* comparison, reports no breaking change and ends with status 0.
C10_ZeroNodesPass ==
    (pc = "exit" /\ argc = 3 /\ DeclaresNoNodes(base_repo) /\ DeclaresNoNodes(pr_repo))
        => exit_status = 0

====
